---------------------------- MODULE Spec2Model ----------------------------
(***************************************************************************)
(* State-machine model of the lttng-analyses correlation core:             *)
(*   old/LTTngAnalyzes/mm.py   Mm      (memory event correlator)           *)
(*   old/perf-info.py          Perf    (record emitter for perf counters)  *)
(* The scheduler tracker (State.sched.switch), the statedump handler and   *)
(* the system-call tracker live in modules of the package that are not     *)
(* part of the sources at hand; they are modelled from the design text     *)
(* (sections 3, 4.1 and 6) and are marked as such where they are defined.  *)
(*                                                                         *)
(* Python values are represented as follows:                               *)
(*   dict            a function; the empty dict is the empty function      *)
(*   list            a sequence                                            *)
(*   None / a value  the sequences << >> and << v >>  (None, Some(v))      *)
(*   str that is cut, searched or tested for a prefix: a sequence of       *)
(*                   one-character strings; other str: a string            *)
(*   object reference (a Process held in a tuple): the thread id           *)
(***************************************************************************)
EXTENDS Integers, Sequences, FiniteSets, TLC

VARIABLES
    cpus,           \* State.cpus : cpu_id -> [current_tid]
    tids,           \* State.tids : tid -> Process
    mm,             \* Mm.mm : allocated_pages, freed_pages, count, dirty
    dirty_pages,    \* Mm.dirty_pages : pages (the DirtyPageLog), nr_dirty marks
    stdout,         \* lines printed so far
    args,           \* Perf.args, after the conversions of __main__
    types,          \* Perf.types
    perf,           \* Perf.perf, the in-memory output buffer
    json_metadata,  \* Perf.json_metadata
    raised,         \* "none", or the exception that ended the run
    event,          \* the event handled last
    ret,            \* what State.sched.switch returned last
    nevents,        \* number of events pulled from the trace so far
    since_wb,       \* block_dirty_buffer events since the last writeback event
    scn,            \* how far the trace so far follows the reference scenario
    hist,           \* per (tid, counter): samples seen at switch-outs, deltas reported
    unfiltered,     \* what the same run prints and buffers with no tid allow-list
    freed_at_zero   \* a page_free event was handled while Global.count was 0

vars == << cpus, tids, mm, dirty_pages, stdout, args, types, perf,
           json_metadata, raised, event, ret, nevents, since_wb, scn, hist,
           unfiltered, freed_at_zero >>

-----------------------------------------------------------------------------
(* Bounds of the model *)

MaxEvents == 4
MaxDeltaEvents == 4
MaxFilterEvents == 4
MaxScenarioEvents == 4
MaxFrameEvents == 4
MaxRecordEvents == 4
MaxSinkEvents == 4

-----------------------------------------------------------------------------
(* Python values *)

None == << >>
Some(v) == << v >>
EmptyDict == << >>
\* truth value of an optional int (None and 0 are false)
TruthyInt(opt) == opt # None /\ opt[1] # 0
\* truth value of an optional str (None and the empty str are false)
TruthyStr(opt) == opt # None /\ opt[1] # ""

\* dict[key] = value, adding the key when it is missing
DictSet(d, k, v) == [x \in (DOMAIN d) \cup {k} |-> IF x = k THEN v ELSE d[x]]

NS_IN_S == 1000000000

-----------------------------------------------------------------------------
(* Objects of the registries.  The classes are defined in modules that are  *)
(* not part of the sources at hand; the fields are those the design text    *)
(* (section 3) lists and the two source files read.                         *)

\* a CPU entry as created on the first switch event that names the CPU
NewCPU == [current_tid |-> -1]

\* a Thread entry as created on first reference; pid -1 is "not known yet"
NewProcess(tid) ==
    [tid |-> tid, pid |-> -1, comm |-> "", perf |-> EmptyDict,
     allocated_pages |-> 0, freed_pages |-> 0, current_syscall |-> EmptyDict]

\* the file-descriptor binding that a file-bearing system call carries
FD(fd, filename) == [fd |-> fd, filename |-> filename]

-----------------------------------------------------------------------------
(* Mm, the memory event correlator: old/LTTngAnalyzes/mm.py *)

\* Mm.__init__
MmInit ==
    /\ mm = [allocated_pages |-> 0, freed_pages |-> 0, count |-> 0, dirty |-> 0]
    /\ dirty_pages = [pages |-> << >>, global_nr_dirty |-> -1, base_nr_dirty |-> -1]

NoProc == [kind |-> "None"]
KeyErrorProc == [kind |-> "KeyError"]
Proc(tid) == [kind |-> "Process", tid |-> tid]

\* a faulty variant: the thread is looked up on some CPU, not on the event's CPU
get_current_proc_anycpu(ev) ==
    IF DOMAIN cpus = {} THEN NoProc
    ELSE LET c == cpus[CHOOSE i \in DOMAIN cpus :
                          \A j \in DOMAIN cpus : cpus[i].current_tid >= cpus[j].current_tid]
         IN  IF c.current_tid = -1 THEN NoProc
             ELSE IF c.current_tid \notin DOMAIN tids THEN KeyErrorProc
             ELSE Proc(c.current_tid)

\* a faulty variant: self.cpus is indexed without the membership test
get_current_proc_nocpucheck(ev) ==
    IF ev.cpu_id \notin DOMAIN cpus THEN KeyErrorProc
    ELSE LET c == cpus[ev.cpu_id]
         IN  IF c.current_tid = -1 THEN NoProc
             ELSE IF c.current_tid \notin DOMAIN tids THEN KeyErrorProc
             ELSE Proc(c.current_tid)

\* Mm.get_current_proc: None, the Process scheduled on the event's CPU, or
\* the KeyError of self.tids[c.current_tid] for a tid that is not registered
get_current_proc(ev) ==
    IF ev.cpu_id \notin DOMAIN cpus THEN NoProc
    ELSE LET c == cpus[ev.cpu_id]
         IN  IF c.current_tid = -1 THEN NoProc
             ELSE IF c.current_tid \notin DOMAIN tids THEN KeyErrorProc
             ELSE Proc(c.current_tid)

\* a faulty variant: the loop does not skip the threads that are in no system call
AllocScratch_create(p) ==
    IF "alloc" \notin DOMAIN p.current_syscall
    THEN [p EXCEPT !.current_syscall = DictSet(@, "alloc", 1)]
    ELSE [p EXCEPT !.current_syscall = DictSet(@, "alloc", @["alloc"] + 1)]

\* the loop of page_alloc over self.tids.values()
AllocScratch(p) ==
    IF DOMAIN p.current_syscall = {} THEN p
    ELSE IF "alloc" \notin DOMAIN p.current_syscall
         THEN [p EXCEPT !.current_syscall = DictSet(@, "alloc", 1)]
         ELSE [p EXCEPT !.current_syscall = DictSet(@, "alloc", @["alloc"] + 1)]

\* a faulty variant: the global in-flight count is not incremented
page_alloc_nocount(ev) ==
    LET t == get_current_proc(ev)
        scratched == [i \in DOMAIN tids |-> AllocScratch(tids[i])]
    IN  /\ mm' = [mm EXCEPT !.allocated_pages = @ + 1]
        /\ tids' = IF t.kind = "Process"
                   THEN [scratched EXCEPT ![t.tid].allocated_pages = @ + 1]
                   ELSE scratched
        /\ raised' = IF t.kind = "KeyError" THEN "KeyError" ELSE raised
        /\ UNCHANGED << cpus, dirty_pages, stdout >>

\* a faulty variant: the page is charged inside the loop, to every thread
page_alloc_chargeall(ev) ==
    LET t == get_current_proc(ev)
        scratched == [i \in DOMAIN tids |-> AllocScratch(tids[i])]
    IN  /\ mm' = [mm EXCEPT !.count = @ + 1, !.allocated_pages = @ + 1]
        /\ tids' = IF t.kind = "Process"
                   THEN [i \in DOMAIN tids |->
                            [scratched[i] EXCEPT !.allocated_pages = @ + 1]]
                   ELSE scratched
        /\ raised' = IF t.kind = "KeyError" THEN "KeyError" ELSE raised
        /\ UNCHANGED << cpus, dirty_pages, stdout >>

\* Mm.page_alloc
page_alloc(ev) ==
    LET t == get_current_proc(ev)
        scratched == [i \in DOMAIN tids |-> AllocScratch(tids[i])]
    IN  /\ mm' = [mm EXCEPT !.count = @ + 1, !.allocated_pages = @ + 1]
        /\ tids' = IF t.kind = "Process"
                   THEN [scratched EXCEPT ![t.tid].allocated_pages = @ + 1]
                   ELSE scratched
        /\ raised' = IF t.kind = "KeyError" THEN "KeyError" ELSE raised
        /\ UNCHANGED << cpus, dirty_pages, stdout >>

\* a faulty variant: the floor test on count is missing
page_free_nofloor(ev) ==
    LET t == get_current_proc(ev)
    IN  /\ mm' = [mm EXCEPT !.freed_pages = @ + 1, !.count = @ - 1]
        /\ tids' = IF t.kind = "Process"
                   THEN [tids EXCEPT ![t.tid].freed_pages = @ + 1]
                   ELSE tids
        /\ raised' = IF t.kind = "KeyError" THEN "KeyError" ELSE raised
        /\ UNCHANGED << cpus, dirty_pages, stdout >>

\* a faulty variant: the return at count == 0 comes before the global
\* freed_pages is counted
page_free_nofreed(ev) ==
    IF mm.count = 0
    THEN UNCHANGED << mm, tids, raised, cpus, dirty_pages, stdout >>
    ELSE LET t == get_current_proc(ev)
         IN  /\ mm' = [mm EXCEPT !.freed_pages = @ + 1, !.count = @ - 1]
             /\ tids' = IF t.kind = "Process"
                        THEN [tids EXCEPT ![t.tid].freed_pages = @ + 1]
                        ELSE tids
             /\ raised' = IF t.kind = "KeyError" THEN "KeyError" ELSE raised
             /\ UNCHANGED << cpus, dirty_pages, stdout >>

\* Mm.page_free: the return at count == 0 comes before the thread lookup
page_free(ev) ==
    IF mm.count = 0
    THEN /\ mm' = [mm EXCEPT !.freed_pages = @ + 1]
         /\ UNCHANGED << tids, raised, cpus, dirty_pages, stdout >>
    ELSE LET t == get_current_proc(ev)
         IN  /\ mm' = [mm EXCEPT !.freed_pages = @ + 1, !.count = @ - 1]
             /\ tids' = IF t.kind = "Process"
                        THEN [tids EXCEPT ![t.tid].freed_pages = @ + 1]
                        ELSE tids
             /\ raised' = IF t.kind = "KeyError" THEN "KeyError" ELSE raised
             /\ UNCHANGED << cpus, dirty_pages, stdout >>

\* the entry block_dirty_buffer appends: (p, name, filename, fd)
DirtyEntry(tid, sc) == << tid, sc["name"], sc["fd"].filename, sc["fd"].fd >>

\* the thread lookup of block_dirty_buffer (the guards before its
\* self.tids[c.current_tid]), with the outcomes of get_current_proc
DirtyLookup(ev) ==
    IF ev.cpu_id \notin DOMAIN cpus THEN NoProc
    ELSE LET c == cpus[ev.cpu_id]
         IN  IF c.current_tid <= 0 THEN NoProc
             ELSE IF c.current_tid \notin DOMAIN tids THEN KeyErrorProc
             ELSE Proc(c.current_tid)

\* what block_dirty_buffer does after self.mm["dirty"] += 1:
\* "skip", "append", or "KeyError" (self.tids[c.current_tid] of a missing tid)
DirtyOutcome(ev) ==
    IF ev.cpu_id \notin DOMAIN cpus THEN "skip"
    ELSE LET c == cpus[ev.cpu_id]
         IN  IF c.current_tid <= 0 THEN "skip"
             ELSE IF c.current_tid \notin DOMAIN tids THEN "KeyError"
             ELSE IF DOMAIN tids[c.current_tid].current_syscall = {} THEN "skip"
             ELSE IF "fd" \in DOMAIN tids[c.current_tid].current_syscall
                  THEN "append" ELSE "skip"

\* a faulty variant: dirty is counted only for events that reach a thread
block_dirty_buffer_attributed(ev) ==
    LET o == DirtyOutcome(ev)
        tid == cpus[ev.cpu_id].current_tid
    IN  /\ mm' = IF ev.cpu_id \in DOMAIN cpus /\ cpus[ev.cpu_id].current_tid > 0
                 THEN [mm EXCEPT !.dirty = @ + 1] ELSE mm
        /\ dirty_pages' = IF o = "append"
                          THEN [dirty_pages EXCEPT !.pages =
                                   Append(@, DirtyEntry(tid, tids[tid].current_syscall))]
                          ELSE dirty_pages
        /\ raised' = IF o = "KeyError" THEN "KeyError" ELSE raised
        /\ UNCHANGED << cpus, tids, stdout >>

\* a faulty variant: the CPU entry is resolved or created, as switch does
block_dirty_buffer_addcpu(ev) ==
    LET o == DirtyOutcome(ev)
        tid == cpus[ev.cpu_id].current_tid
    IN  /\ mm' = [mm EXCEPT !.dirty = @ + 1]
        /\ dirty_pages' = IF o = "append"
                          THEN [dirty_pages EXCEPT !.pages =
                                   Append(@, DirtyEntry(tid, tids[tid].current_syscall))]
                          ELSE dirty_pages
        /\ raised' = IF o = "KeyError" THEN "KeyError" ELSE raised
        /\ cpus' = IF ev.cpu_id \in DOMAIN cpus THEN cpus
                   ELSE DictSet(cpus, ev.cpu_id, NewCPU)
        /\ UNCHANGED << tids, stdout >>

\* Mm.block_dirty_buffer (self.dirty_pages is never None: __init__ stores into it)
block_dirty_buffer(ev) ==
    LET o == DirtyOutcome(ev)
        tid == cpus[ev.cpu_id].current_tid
    IN  /\ mm' = [mm EXCEPT !.dirty = @ + 1]
        /\ dirty_pages' = IF o = "append"
                          THEN [dirty_pages EXCEPT !.pages =
                                   Append(@, DirtyEntry(tid, tids[tid].current_syscall))]
                          ELSE dirty_pages
        /\ raised' = IF o = "KeyError" THEN "KeyError" ELSE raised
        /\ UNCHANGED << cpus, tids, stdout >>

\* ns_to_hour_nsec(ts) of LTTngAnalyzes.common: the time of day, to the ns
ns_to_hour_nsec(ts) == [fmt |-> "hour_nsec", ns |-> ts]

\* the line writeback_global_dirty_state prints
DirtyStateLine(ev) ==
    [ts |-> ns_to_hour_nsec(ev.timestamp), count |-> mm.count, dirty |-> mm.dirty,
     nr_dirty |-> ev.nr_dirty, nr_writeback |-> ev.nr_writeback,
     nr_dirtied |-> ev.nr_dirtied, nr_written |-> ev.nr_written]

\* a faulty variant: the summary event starts a new log along with the new epoch
writeback_global_dirty_state_clearlog(ev) ==
    /\ stdout' = Append(stdout, DirtyStateLine(ev))
    /\ mm' = [mm EXCEPT !.dirty = 0]
    /\ dirty_pages' = [dirty_pages EXCEPT !.pages = << >>]
    /\ UNCHANGED << cpus, tids, raised >>

\* Mm.writeback_global_dirty_state
writeback_global_dirty_state(ev) ==
    /\ stdout' = Append(stdout, DirtyStateLine(ev))
    /\ mm' = [mm EXCEPT !.dirty = 0]
    /\ UNCHANGED << cpus, tids, dirty_pages, raised >>

-----------------------------------------------------------------------------
(* Strings that the code cuts or searches, as sequences of characters *)

Digit == << "0", "1", "2", "3", "4", "5", "6", "7", "8", "9" >>

RECURSIVE NatToStr(_)
NatToStr(n) == IF n < 10 THEN << Digit[n + 1] >>
               ELSE NatToStr(n \div 10) \o << Digit[(n % 10) + 1] >>

\* str(n) of an int
IntToStr(n) == IF n < 0 THEN << "-" >> \o NatToStr(-n) ELSE NatToStr(n)

RECURSIVE SplitFrom(_, _, _)
SplitFrom(s, sep, cur) ==
    IF s = << >> THEN << cur >>
    ELSE IF Head(s) = sep THEN << cur >> \o SplitFrom(Tail(s), sep, << >>)
    ELSE SplitFrom(Tail(s), sep, Append(cur, Head(s)))

\* s.split(sep) for a one-character separator
Split(s, sep) == SplitFrom(s, sep, << >>)

\* x in lst, for a list
InList(x, lst) == \E i \in 1..Len(lst) : lst[i] = x

\* x in s, for two strings: s has x as a substring
InStr(x, s) == \E i \in 0..(Len(s) - Len(x)) : SubSeq(s, i + 1, i + Len(x)) = x

\* name.startswith(prefix)
StartsWith(name, prefix) ==
    Len(name) >= Len(prefix) /\ SubSeq(name, 1, Len(prefix)) = prefix

PERF_ == << "p", "e", "r", "f", "_" >>
PERF_X == PERF_ \o << "x" >>
PERF_Y == PERF_ \o << "y" >>
KEY_TS == << "t", "s" >>
KEY_TID == << "t", "i", "d" >>

\* the order in which the trace declares its context fields, which is the
\* order dicts built from them are walked in
FieldOrder == << PERF_X, PERF_Y >>

-----------------------------------------------------------------------------
(* The scheduler tracker, the statedump handler and the system-call        *)
(* tracker.  Their code is in modules of the package that are not part of  *)
(* the sources at hand: modelled from the design text, sections 3 and 4.1. *)

Sentinel(tid) == tid <= 0

\* the Thread Registry once the event's prev_tid / next_tid are referenced
Referenced(tds, tid) ==
    IF Sentinel(tid) \/ tid \in DOMAIN tds THEN tds
    ELSE [i \in (DOMAIN tds) \cup {tid} |-> IF i = tid THEN NewProcess(tid) ELSE tds[i]]

\* the counter fields of a switch event
CounterFields(ev) == {c \in DOMAIN ev.fields : StartsWith(c, PERF_)}

\* switch, step 2 and 4: the deltas of prev_tid's counters that have a baseline
SwitchRet(ev) ==
    IF Sentinel(ev.prev_tid) \/ ev.prev_tid \notin DOMAIN tids THEN EmptyDict
    ELSE [c \in {k \in CounterFields(ev) : k \in DOMAIN tids[ev.prev_tid].perf}
            |-> ev.fields[c] - tids[ev.prev_tid].perf[c]]

\* switch, step 2: every counter sample becomes prev_tid's stored cumulative value
SwitchTids(ev) ==
    LET t1 == Referenced(tids, ev.prev_tid)
        t2 == IF Sentinel(ev.prev_tid) THEN t1
              ELSE [t1 EXCEPT ![ev.prev_tid].perf =
                       [c \in (DOMAIN @) \cup CounterFields(ev) |->
                           IF c \in CounterFields(ev) THEN ev.fields[c] ELSE @[c]]]
    IN  Referenced(t2, ev.next_tid)

\* switch, steps 1 and 3: the CPU entry is resolved or created, then
\* current_tid = next_tid
SwitchCpus(ev) ==
    [i \in (DOMAIN cpus) \cup {ev.cpu_id} |->
        IF i = ev.cpu_id THEN [NewCPU EXCEPT !.current_tid = ev.next_tid] ELSE cpus[i]]

\* process-statedump: registers the Thread with its pid and comm
process_state(ev) ==
    /\ tids' = [Referenced(tids, ev.tid) EXCEPT ![ev.tid].pid = ev.pid,
                                                 ![ev.tid].comm = ev.comm]
    /\ UNCHANGED << cpus, mm, dirty_pages, stdout, perf, json_metadata, raised >>

\* the thread a system-call event belongs to: the one scheduled on its CPU
SyscallThread(ev) ==
    IF ev.cpu_id \in DOMAIN cpus /\ cpus[ev.cpu_id].current_tid \in DOMAIN tids
    THEN cpus[ev.cpu_id].current_tid ELSE -1

\* a system call starts: the SyscallContext is attached to the thread
syscall_entry(ev) ==
    LET t == SyscallThread(ev)
        sc == IF ev.fd = None THEN DictSet(EmptyDict, "name", ev.syscall)
              ELSE DictSet(DictSet(EmptyDict, "name", ev.syscall), "fd", ev.fd[1])
    IN  /\ tids' = IF t = -1 THEN tids ELSE [tids EXCEPT ![t].current_syscall = sc]
        /\ UNCHANGED << cpus, mm, dirty_pages, stdout, perf, json_metadata, raised >>

\* a system call returns: the thread has no SyscallContext any more
syscall_exit(ev) ==
    LET t == SyscallThread(ev)
    IN  /\ tids' = IF t = -1 THEN tids ELSE [tids EXCEPT ![t].current_syscall = EmptyDict]
        /\ UNCHANGED << cpus, mm, dirty_pages, stdout, perf, json_metadata, raised >>

-----------------------------------------------------------------------------
(* Perf, the record emitter: old/perf-info.py *)

\* __main__: the options as argparse leaves them, converted for Perf
\* (tid and type are split on ',', start and end go from seconds to ns)
MainArgs(raw) ==
    [tid      |-> IF raw.tid # << >> THEN Split(raw.tid, ",") ELSE None,
     pname    |-> raw.pname,
     start    |-> IF TruthyInt(raw.start) THEN Some(raw.start[1] * NS_IN_S) ELSE raw.start,
     end      |-> IF TruthyInt(raw.end) THEN Some(raw.end[1] * NS_IN_S) ELSE raw.end,
     unixtime |-> raw.unixtime,
     delta    |-> raw.delta,
     json     |-> raw.json,
     mongo    |-> raw.mongo,
     quiet    |-> raw.quiet]

\* __main__: types is None for 'all', the list of names otherwise
MainTypes(raw) == IF raw.type # << "a", "l", "l" >> THEN Split(raw.type, ",") ELSE None

\* Perf.__init__
PerfInit ==
    /\ perf = << >>
    /\ json_metadata = EmptyDict

\* a faulty variant: the two modes of --delta are swapped
RecordOf_swapped(a, ty, ev, r, tds) ==
    LET tid == ev.prev_tid
        keep == {c \in DOMAIN r : ~(ty # None /\ ~InList(c, ty)) /\ StartsWith(c, PERF_)}
    IN  [k \in {KEY_TS, KEY_TID} \cup keep |->
            IF k = KEY_TS THEN ev.timestamp
            ELSE IF k = KEY_TID THEN tid
            ELSE IF a.delta THEN tds[tid].perf[k] ELSE r[k]]

\* a faulty variant: the type filter is not applied
RecordOf_notypes(a, ty, ev, r, tds) ==
    LET tid == ev.prev_tid
        keep == {c \in DOMAIN r : StartsWith(c, PERF_)}
    IN  [k \in {KEY_TS, KEY_TID} \cup keep |->
            IF k = KEY_TS THEN ev.timestamp
            ELSE IF k = KEY_TID THEN tid
            ELSE IF a.delta THEN r[k] ELSE tds[tid].perf[k]]

\* Perf.process_event, lines 59-68: the record d built from what switch returned
RecordOf(a, ty, ev, r, tds) ==
    LET tid == ev.prev_tid
        keep == {c \in DOMAIN r : ~(ty # None /\ ~InList(c, ty)) /\ StartsWith(c, PERF_)}
    IN  [k \in {KEY_TS, KEY_TID} \cup keep |->
            IF k = KEY_TS THEN ev.timestamp
            ELSE IF k = KEY_TID THEN tid
            ELSE IF a.delta THEN r[k] ELSE tds[tid].perf[k]]

\* ns_to_hour_nsec(ts), or '{:.9f}'.format(ts / NS_IN_S): seconds and nanoseconds
FormatTime(a, ts) ==
    IF ~a.unixtime THEN ns_to_hour_nsec(ts)
    ELSE [fmt |-> "unixtime", s |-> ts \div NS_IN_S, ns |-> ts % NS_IN_S]

\* a faulty variant: every record is filed as that of the process's main thread
MetadataAfter_pidonly(md, comm, tid, pid) ==
    IF pid \notin DOMAIN md
    THEN DictSet(md, pid, [pname |-> comm, threads |-> EmptyDict])
    ELSE [md EXCEPT ![pid].pname = comm]

\* Perf.log_perf_event_json: the metadata entry of the record's process
MetadataAfter(md, comm, tid, pid) ==
    IF pid = tid
    THEN IF pid \notin DOMAIN md
         THEN DictSet(md, pid, [pname |-> comm, threads |-> EmptyDict])
         ELSE [md EXCEPT ![pid].pname = comm]
    ELSE LET m1 == IF pid \notin DOMAIN md
                   THEN DictSet(md, pid, [pname |-> "unknown", threads |-> EmptyDict])
                   ELSE md
         IN  [m1 EXCEPT ![pid].threads = DictSet(@, IntToStr(tid), [pname |-> comm])]

\* the keys of d that output_perf prints, in the order the dict is walked
PerfKeys(d) == SelectSeq(FieldOrder, LAMBDA c : c \in DOMAIN d /\ StartsWith(c, PERF_))

\* a faulty variant: args.tid is searched as one string, not as a list of names
Passes_substring(a, ev, tds) ==
    LET tid == ev.prev_tid
    IN  /\ ~(a.tid # None /\ ~(\E i \in 1..Len(a.tid) : InStr(IntToStr(tid), a.tid[i])))
        /\ ~(a.pname # None /\ a.pname[1] # tds[tid].comm)
        /\ ev.name = "sched_switch"
        /\ ~(TruthyInt(a.start) /\ ev.timestamp < a.start[1])
        /\ ~(TruthyInt(a.end) /\ ev.timestamp > a.end[1])

\* the filters of output_perf, lines 136-156: TRUE when the record is let through
Passes(a, ev, tds) ==
    LET tid == ev.prev_tid
    IN  /\ ~(a.tid # None /\ ~InList(IntToStr(tid), a.tid))
        /\ ~(a.pname # None /\ a.pname[1] # tds[tid].comm)
        /\ ev.name = "sched_switch"
        /\ ~(TruthyInt(a.start) /\ ev.timestamp < a.start[1])
        /\ ~(TruthyInt(a.end) /\ ev.timestamp > a.end[1])

\* Perf.output_perf with log_perf_event_json: the lines printed, the record
\* buffered and the metadata kept, added to out = [stdout, perf, json_metadata]
output_perf(a, ev, d, tds, out) ==
    IF ~Passes(a, ev, tds) THEN out
    ELSE LET tid == ev.prev_tid
             pid == IF tds[tid].pid = -1 THEN tid ELSE tds[tid].pid
             comm == tds[tid].comm
             endtime == FormatTime(a, ev.timestamp)
             keys == PerfKeys(d)
             insert == keys # << >> /\ (TruthyStr(a.json) \/ TruthyStr(a.mongo))
             lines == [i \in 1..Len(keys) |->
                          [endtime |-> endtime, comm |-> comm, tid |-> tid,
                           context |-> keys[i], value |-> d[keys[i]]]]
         IN  [stdout |-> IF a.quiet THEN out.stdout ELSE out.stdout \o lines,
              perf |-> IF insert THEN Append(out.perf, d) ELSE out.perf,
              json_metadata |-> IF insert
                                THEN MetadataAfter(out.json_metadata, comm, tid, pid)
                                ELSE out.json_metadata]

\* Perf.process_event
process_event(ev) ==
    IF ev.name = "sched_switch"
    THEN LET r == SwitchRet(ev)
             tds == SwitchTids(ev)
             out == IF DOMAIN r # {}
                    THEN output_perf(args, ev, RecordOf(args, types, ev, r, tds), tds,
                                     [stdout |-> stdout, perf |-> perf,
                                      json_metadata |-> json_metadata])
                    ELSE [stdout |-> stdout, perf |-> perf,
                          json_metadata |-> json_metadata]
         IN  /\ cpus' = SwitchCpus(ev)
             /\ tids' = tds
             /\ ret' = r
             /\ stdout' = out.stdout
             /\ perf' = out.perf
             /\ json_metadata' = out.json_metadata
             /\ UNCHANGED << mm, dirty_pages, raised >>
    ELSE IF ev.name = "lttng_statedump_process_state"
    THEN process_state(ev) /\ UNCHANGED ret
    ELSE UNCHANGED << cpus, tids, mm, dirty_pages, stdout, perf, json_metadata,
                      raised, ret >>

-----------------------------------------------------------------------------
(* The run: Perf.run pulls the events of the trace one by one, in           *)
(* non-decreasing timestamp order, until the trace ends or a handler raises *)

\* argparse's defaults
DefaultRaw ==
    [type |-> << "a", "l", "l" >>, tid |-> << >>, pname |-> None, start |-> None,
     end |-> None, unixtime |-> FALSE, delta |-> FALSE, json |-> None,
     mongo |-> None, quiet |-> FALSE]

\* the state after construction, for the command lines in Raws
InitWith(Raws) ==
    /\ \E raw \in Raws : args = MainArgs(raw) /\ types = MainTypes(raw)
    /\ cpus = EmptyDict
    /\ tids = EmptyDict
    /\ MmInit
    /\ PerfInit
    /\ stdout = << >>
    /\ raised = "none"
    /\ event = [name |-> "none", timestamp |-> 0]
    /\ ret = EmptyDict
    /\ nevents = 0
    /\ since_wb = 0
    /\ scn = 0
    /\ hist = EmptyDict
    /\ unfiltered = [stdout |-> << >>, perf |-> << >>, json_metadata |-> EmptyDict]
    /\ freed_at_zero = FALSE

\* the next event of the trace can be pulled
Pull(ev, max) ==
    /\ raised = "none"
    /\ nevents < max
    /\ ev.timestamp >= event.timestamp

\* the reference scenario of the design text (section 8), event by event
ScenarioStep(k, ev) ==
    \/ /\ k = 0 /\ ev.name = "sched_switch" /\ ev.cpu_id = 0 /\ ev.timestamp = 0
       /\ ev.next_tid = 100 /\ ev.prev_tid # 100
       /\ DOMAIN ev.fields = {PERF_X} /\ ev.fields[PERF_X] = 10
    \/ /\ k = 1 /\ ev.name = "sched_switch" /\ ev.cpu_id = 0 /\ ev.timestamp = 5
       /\ ev.prev_tid = 100 /\ ev.next_tid = 200
       /\ DOMAIN ev.fields = {PERF_X} /\ ev.fields[PERF_X] = 25
    \/ k = 2 /\ ev.name = "mm_page_alloc" /\ ev.cpu_id = 0 /\ ev.timestamp = 6
    \/ k = 3 /\ ev.name = "mm_page_free" /\ ev.cpu_id = 0 /\ ev.timestamp = 7

\* the samples of prev_tid's counters on a switch event, with the delta switch
\* returned for each and the value process_event put into the record
HistAfter(ev, r, d) ==
    IF ev.name # "sched_switch" \/ Sentinel(ev.prev_tid) THEN hist
    ELSE LET new == {<< ev.prev_tid, c >> : c \in CounterFields(ev)}
         IN  [k \in (DOMAIN hist) \cup new |->
                 LET old == IF k \in DOMAIN hist THEN hist[k] ELSE << >>
                 IN  IF k \in new
                     THEN Append(old,
                            [sample |-> ev.fields[k[2]],
                             delta  |-> IF k[2] \in DOMAIN r THEN Some(r[k[2]]) ELSE None,
                             rec    |-> IF k[2] \in DOMAIN d THEN Some(d[k[2]]) ELSE None])
                     ELSE old]

\* what is recorded about the run beside the program's own state
Observe(ev) ==
    /\ event' = ev
    /\ nevents' = nevents + 1
    /\ since_wb' = IF ev.name = "block_dirty_buffer" THEN since_wb + 1
                   ELSE IF ev.name = "writeback_global_dirty_state" THEN 0
                   ELSE since_wb
    /\ scn' = IF ScenarioStep(scn, ev) THEN scn + 1 ELSE -1
    /\ freed_at_zero' = (freed_at_zero \/ (ev.name = "mm_page_free" /\ mm.count = 0))
    /\ UNCHANGED << args, types >>

NotPerf == UNCHANGED << perf, json_metadata, ret, hist, unfiltered >>

\* a sched_switch event
SchedSwitch(CPUS, PREV, NEXT, FIELDS, TS, max) ==
    \E cpu \in CPUS, p \in PREV, n \in NEXT, f \in FIELDS, ts \in TS :
        LET ev == [name |-> "sched_switch", timestamp |-> ts, cpu_id |-> cpu,
                   prev_tid |-> p, next_tid |-> n, fields |-> f]
            r == SwitchRet(ev)
            tds == SwitchTids(ev)
            d == IF DOMAIN r # {} THEN RecordOf(args, types, ev, r, tds) ELSE EmptyDict
        IN  /\ Pull(ev, max)
            /\ process_event(ev)
            /\ hist' = HistAfter(ev, r, d)
            /\ unfiltered' = IF DOMAIN r # {}
                             THEN output_perf([args EXCEPT !.tid = None], ev, d, tds,
                                              unfiltered)
                             ELSE unfiltered
            /\ Observe(ev)

\* a lttng_statedump_process_state event
Statedump(TIDS, PIDS, COMMS, TS, max) ==
    \E t \in TIDS, pid \in PIDS, c \in COMMS, ts \in TS :
        LET ev == [name |-> "lttng_statedump_process_state", timestamp |-> ts,
                   tid |-> t, pid |-> pid, comm |-> c]
        IN  /\ Pull(ev, max)
            /\ process_event(ev)
            /\ UNCHANGED << hist, unfiltered >>
            /\ Observe(ev)

\* a system call starts on a CPU
SyscallEntry(CPUS, CALLS, TS, max) ==
    \E cpu \in CPUS, call \in CALLS, ts \in TS :
        LET ev == [name |-> "syscall_entry", timestamp |-> ts, cpu_id |-> cpu,
                   syscall |-> call.name, fd |-> call.fd]
        IN  /\ Pull(ev, max)
            /\ syscall_entry(ev)
            /\ UNCHANGED << ret, hist, unfiltered >>
            /\ Observe(ev)

\* a system call returns on a CPU
SyscallExit(CPUS, TS, max) ==
    \E cpu \in CPUS, ts \in TS :
        LET ev == [name |-> "syscall_exit", timestamp |-> ts, cpu_id |-> cpu]
        IN  /\ Pull(ev, max)
            /\ syscall_exit(ev)
            /\ UNCHANGED << ret, hist, unfiltered >>
            /\ Observe(ev)

\* a mm_page_alloc event
PageAlloc(CPUS, TS, max) ==
    \E cpu \in CPUS, ts \in TS :
        LET ev == [name |-> "mm_page_alloc", timestamp |-> ts, cpu_id |-> cpu]
        IN  Pull(ev, max) /\ page_alloc(ev) /\ NotPerf /\ Observe(ev)

\* a mm_page_free event
PageFree(CPUS, TS, max) ==
    \E cpu \in CPUS, ts \in TS :
        LET ev == [name |-> "mm_page_free", timestamp |-> ts, cpu_id |-> cpu]
        IN  Pull(ev, max) /\ page_free(ev) /\ NotPerf /\ Observe(ev)

\* a block_dirty_buffer event
BlockDirtyBuffer(CPUS, TS, max) ==
    \E cpu \in CPUS, ts \in TS :
        LET ev == [name |-> "block_dirty_buffer", timestamp |-> ts, cpu_id |-> cpu]
        IN  Pull(ev, max) /\ block_dirty_buffer(ev) /\ NotPerf /\ Observe(ev)

\* a writeback_global_dirty_state event
Writeback(TS, max) ==
    \E ts \in TS :
        LET ev == [name |-> "writeback_global_dirty_state", timestamp |-> ts,
                   nr_dirty |-> 0, nr_writeback |-> 0, nr_dirtied |-> 0,
                   nr_written |-> 0]
        IN  Pull(ev, max) /\ writeback_global_dirty_state(ev) /\ NotPerf /\ Observe(ev)

-----------------------------------------------------------------------------
(* Spec: the memory events, on two CPUs that switch between two threads    *)
(* and idle, and on a CPU no switch event names                            *)

MmCPUs == {0, 1}
MmEventCPUs == {0, 1, 2}
MmTids == {0, 1, 2}
MmCalls == {[name |-> "write", fd |-> Some(FD(3, "f"))], [name |-> "futex", fd |-> None]}

Init == InitWith({DefaultRaw})

Next ==
    \/ SchedSwitch(MmCPUs, MmTids, MmTids, {EmptyDict}, {0}, MaxEvents)
    \/ SyscallEntry(MmCPUs, MmCalls, {0}, MaxEvents)
    \/ SyscallExit(MmCPUs, {0}, MaxEvents)
    \/ PageAlloc(MmEventCPUs, {0}, MaxEvents)
    \/ PageFree(MmEventCPUs, {0}, MaxEvents)
    \/ BlockDirtyBuffer(MmEventCPUs, {0}, MaxEvents)
    \/ Writeback({0}, MaxEvents)

Spec == Init /\ [][Next]_vars

-----------------------------------------------------------------------------
(* SpecDelta: switch events that sample one counter of two threads, with   *)
(* --delta on and off; samples may rise, repeat or fall                    *)

DeltaRaws == {[DefaultRaw EXCEPT !.delta = b] : b \in BOOLEAN}
DeltaFields == {[c \in {PERF_X} |-> v] : v \in {10, 25, 40}}

InitDelta == InitWith(DeltaRaws)

NextDelta ==
    SchedSwitch({0}, {0, 1, 10}, {0, 1}, DeltaFields, {5}, MaxDeltaEvents)

SpecDelta == InitDelta /\ [][NextDelta]_vars

-----------------------------------------------------------------------------
(* SpecFilter: perf-info.py on a trace of switch and statedump events, for *)
(* command lines that set the tid allow-list, the process name and the     *)
(* time window.  Thread ids 1 and 10 print as "1" and "10"; the events are *)
(* stamped 5 ns, 1 s and 2 s.                                              *)

FilterTS == {5, NS_IN_S, 2 * NS_IN_S}
FilterFields == {[c \in {PERF_X} |-> 10]}

FilterBase == [DefaultRaw EXCEPT !.delta = TRUE, !.unixtime = TRUE, !.json = Some("out")]
TidOptions == {<< "0" >>, << "1" >>, << "1", "0" >>, << "1", "0", ",", "1" >>}
TimeOptions == {None, Some(0), Some(1)}

FilterRaws ==
    {[FilterBase EXCEPT !.tid = t] : t \in TidOptions}
    \cup {[FilterBase EXCEPT !.pname = Some("a")]}
    \cup {[FilterBase EXCEPT !.start = st, !.end = en] :
             st \in TimeOptions, en \in TimeOptions}
    \cup {[FilterBase EXCEPT !.tid = << "1" >>, !.pname = Some("a"),
                             !.start = Some(1), !.end = Some(1)]}

InitFilter == InitWith(FilterRaws)

NextFilter ==
    \/ SchedSwitch({0}, {0, 1, 10}, {0}, FilterFields, FilterTS, MaxFilterEvents)
    \/ Statedump({1, 10}, {1}, {"a", "b"}, FilterTS, MaxFilterEvents)

SpecFilter == InitFilter /\ [][NextFilter]_vars

-----------------------------------------------------------------------------
(* SpecScenario: traces over the alphabet of the reference scenario: CPU 0, *)
(* threads 100 and 200, counter perf_x sampled at 10 and 25; the k-th event *)
(* of a trace is stamped ScenarioTS[k]                                      *)

ScenarioTS == << 0, 5, 6, 7, 8, 9 >>
ScenarioNow == IF nevents < Len(ScenarioTS) THEN {ScenarioTS[nevents + 1]} ELSE {}
ScenarioFields == {[c \in {PERF_X} |-> v] : v \in {10, 25}}

InitScenario == InitWith({[DefaultRaw EXCEPT !.delta = TRUE]})

NextScenario ==
    \/ SchedSwitch({0}, {0, 100}, {100, 200}, ScenarioFields, ScenarioNow,
                   MaxScenarioEvents)
    \/ PageAlloc({0}, ScenarioNow, MaxScenarioEvents)
    \/ PageFree({0}, ScenarioNow, MaxScenarioEvents)

SpecScenario == InitScenario /\ [][NextScenario]_vars

-----------------------------------------------------------------------------
(* SpecFrame: the memory events among switch events that sample a counter: *)
(* CPU 0 switches between thread 1 and idle, CPU 1 is named by memory      *)
(* events only                                                             *)

FrameFields == {[c \in {PERF_X} |-> v] : v \in {10, 25}}

InitFrame == InitWith({DefaultRaw})

NextFrame ==
    \/ SchedSwitch({0}, {0, 1}, {0, 1}, FrameFields, {0}, MaxFrameEvents)
    \/ SyscallEntry({0}, MmCalls, {0}, MaxFrameEvents)
    \/ PageAlloc({0, 1}, {0}, MaxFrameEvents)
    \/ PageFree({0, 1}, {0}, MaxFrameEvents)
    \/ BlockDirtyBuffer({0, 1}, {0}, MaxFrameEvents)
    \/ Writeback({0}, MaxFrameEvents)

SpecFrame == InitFrame /\ [][NextFrame]_vars

-----------------------------------------------------------------------------
(* SpecRecord: switch events that sample perf_x alone or perf_x and perf_y  *)
(* of thread 1, for command lines with --type all, perf_x, perf_y or        *)
(* perf_x,perf_y, with --delta on and off, and a JSON sink                  *)

TypeOptions == {<< "a", "l", "l" >>, PERF_X, PERF_Y, PERF_X \o << "," >> \o PERF_Y}
RecordRaws ==
    {[DefaultRaw EXCEPT !.type = ty, !.delta = b, !.json = Some("out")] :
        ty \in TypeOptions, b \in BOOLEAN}
RecordFields ==
    {(PERF_X :> 10) @@ (PERF_Y :> 3), (PERF_X :> 25) @@ (PERF_Y :> 7), (PERF_X :> 25)}

InitRecord == InitWith(RecordRaws)

NextRecord ==
    SchedSwitch({0}, {0, 1}, {0}, RecordFields, {5}, MaxRecordEvents)

SpecRecord == InitRecord /\ [][NextRecord]_vars

-----------------------------------------------------------------------------
(* SpecSinks: switch and statedump events for command lines with and       *)
(* without --json, --mongo and --quiet (and --delta); thread 1 is the main *)
(* thread of process 1, thread 10 another thread of it                     *)

SinkRaws ==
    {[DefaultRaw EXCEPT !.delta = TRUE, !.json = j, !.mongo = m, !.quiet = q] :
        j \in {None, Some("out")}, m \in {None, Some("127.0.0.1:27017")},
        q \in BOOLEAN}

InitSinks == InitWith(SinkRaws)

NextSinks ==
    \/ SchedSwitch({0}, {1, 10}, {0}, FilterFields, {5}, MaxSinkEvents)
    \/ Statedump({1, 10}, {1}, {"a", "b"}, {5}, MaxSinkEvents)

SpecSinks == InitSinks /\ [][NextSinks]_vars

-----------------------------------------------------------------------------
(* Properties *)

\* the thread scheduled on a CPU, or -1 when the CPU is unknown or runs no
\* registered thread
ScheduledOn(cpu) ==
    IF cpu \in DOMAIN cpus /\ cpus[cpu].current_tid \in DOMAIN tids
    THEN cpus[cpu].current_tid ELSE -1

\* C1: Global.count is never negative, whatever the order of page_alloc and
\* page_free events and whatever CPUs they name.
C1_CountNonNegative == mm.count >= 0

\* C1 is exercised: a page_free was handled with no page in flight, more
\* frees than allocations seen so far.
C1_FreeAtZero ==
    /\ event.name = "mm_page_free"
    /\ mm.count = 0
    /\ mm.freed_pages > mm.allocated_pages

\* C2: every page_free adds one to Global.freed_pages, lowers Global.count by
\* one unless it is 0 already, and - whether count was 0 or not - adds exactly
\* one to freed_pages of the thread scheduled on the event's CPU; without such
\* a thread the per-thread state is left alone.
C2_PageFreeCharges ==
    [][event'.name = "mm_page_free" =>
          LET t == ScheduledOn(event'.cpu_id)
          IN  /\ mm'.freed_pages = mm.freed_pages + 1
              /\ mm'.count = IF mm.count = 0 THEN 0 ELSE mm.count - 1
              /\ IF t = -1 THEN tids' = tids
                 ELSE tids' = [tids EXCEPT ![t].freed_pages = @ + 1]]_vars

\* C3: the allocated_pages (freed_pages) of a thread changes at an event only
\* if the event is a page_alloc (page_free) on a CPU whose current_tid was that
\* thread; no other thread's counters change at that event.
C3_AttributionExclusive ==
    [][\A t \in DOMAIN tids' :
          LET before == IF t \in DOMAIN tids THEN tids[t] ELSE NewProcess(t)
              on_cpu == /\ event'.cpu_id \in DOMAIN cpus
                        /\ cpus[event'.cpu_id].current_tid = t
          IN  /\ tids'[t].allocated_pages # before.allocated_pages
                    => event'.name = "mm_page_alloc" /\ on_cpu
              /\ tids'[t].freed_pages # before.freed_pages
                    => event'.name = "mm_page_free" /\ on_cpu]_vars

\* C3 is exercised: two CPUs run two different threads, and a page_alloc has
\* charged one of them and not the other.
C3_TwoThreadsOneCharged ==
    /\ event.name = "mm_page_alloc"
    /\ DOMAIN cpus = {0, 1}
    /\ cpus[0].current_tid # cpus[1].current_tid
    /\ \A c \in {0, 1} : cpus[c].current_tid \in DOMAIN tids
    /\ tids[cpus[event.cpu_id].current_tid].allocated_pages = 1
    /\ tids[cpus[1 - event.cpu_id].current_tid].allocated_pages = 0

\* C8: Global.dirty is the number of block_dirty_buffer events handled since
\* the last writeback_global_dirty_state event (since the start when there was
\* none), attributed to a thread or not; right after a writeback event it is 0.
C8_DirtyEpoch ==
    /\ mm.dirty = since_wb
    /\ event.name = "writeback_global_dirty_state" => mm.dirty = 0

\* C8 is exercised: a writeback event has reset a count of two dirty-buffer
\* events (the printed line shows it), none of which reached a thread.
C8_ResetAfterDirty ==
    /\ event.name = "writeback_global_dirty_state"
    /\ stdout # << >>
    /\ stdout[Len(stdout)].dirty = 2
    /\ mm.dirty = 0
    /\ dirty_pages.pages = << >>

\* C9: every CPU's current_tid is -1, 0 or the tid of a registered Thread, and
\* so the lookups of page_alloc, page_free and block_dirty_buffer never index
\* the Thread Registry with a tid it does not hold (tid 0 of an idle CPU
\* included).
C9_LookupNeverFails ==
    /\ \A c \in DOMAIN cpus :
          cpus[c].current_tid \in {-1, 0} \cup DOMAIN tids
    /\ raised # "KeyError"

\* C10: the DirtyPageLog is append-only: an event leaves it unchanged or adds
\* exactly one entry at its end, and only block_dirty_buffer adds one - the
\* entry of the thread scheduled on that event's CPU.
C10_LogAppendOnly ==
    [][\/ dirty_pages'.pages = dirty_pages.pages
       \/ /\ event'.name = "block_dirty_buffer"
          /\ Len(dirty_pages'.pages) = Len(dirty_pages.pages) + 1
          /\ SubSeq(dirty_pages'.pages, 1, Len(dirty_pages.pages)) = dirty_pages.pages
          /\ dirty_pages'.pages[Len(dirty_pages'.pages)][1]
                = cpus[event'.cpu_id].current_tid]_vars

\* C10 is exercised: a second block_dirty_buffer event has added a second
\* entry behind the first.
C10_LogGrown ==
    /\ Len(dirty_pages.pages) = 2
    /\ event.name = "block_dirty_buffer"

\* C4: at the first switch-out of a thread that samples a counter, switch only
\* records the baseline and reports no delta (no value reaches a record); at
\* each later one whose sample c2 exceeds the previous sample c1 it reports
\* exactly c2 - c1, which is the value process_event puts into the record under
\* --delta; each time the sample becomes the stored baseline.
C4_DeltaCorrect ==
    \A k \in DOMAIN hist :
        LET h == hist[k]
        IN  /\ h[1].delta = None
            /\ h[1].rec = None
            /\ \A i \in 2..Len(h) :
                  h[i - 1].sample < h[i].sample =>
                      /\ h[i].delta = Some(h[i].sample - h[i - 1].sample)
                      /\ args.delta => h[i].rec = h[i].delta
            /\ tids[k[1]].perf[k[2]] = h[Len(h)].sample

\* C4 is exercised: a thread was switched out three times with samples
\* 10 < 25 < 40 under --delta, and 15 and 15 were reported and printed.
C4_ThreeSwitchOuts ==
    /\ args.delta
    /\ \E k \in DOMAIN hist :
          /\ Len(hist[k]) = 3
          /\ hist[k][1].sample = 10 /\ hist[k][2].sample = 25 /\ hist[k][3].sample = 40
          /\ hist[k][2].delta = Some(15) /\ hist[k][3].delta = Some(15)
    /\ Len(stdout) = 2
    /\ stdout[1].value = 15 /\ stdout[2].value = 15

C6_TidFilterSubsequence ==
    \A T \in {0, 1, 10} :
        args.tid = << IntToStr(T) >> =>
            /\ perf = SelectSeq(unfiltered.perf, LAMBDA r : r[KEY_TID] = T)
            /\ stdout = SelectSeq(unfiltered.stdout, LAMBDA l : l.tid = T)

\* C6 is exercised: with the allow-list {10}, records of tid 1 and of tid 10
\* were produced and only the one of tid 10 was kept.
C6_OneKeptOneDropped ==
    /\ args.tid = << IntToStr(10) >>
    /\ Len(unfiltered.perf) = 2
    /\ unfiltered.perf[1][KEY_TID] = 1
    /\ unfiltered.perf[2][KEY_TID] = 10
    /\ Len(perf) = 1
    /\ perf[1][KEY_TID] = 10
    /\ Len(stdout) = 1

\* the three filters as C7 states them, every configured bound enforced
C7_FiltersPass(ev, tds) ==
    /\ args.tid = None \/ InList(IntToStr(ev.prev_tid), args.tid)
    /\ args.pname = None \/ args.pname[1] = tds[ev.prev_tid].comm
    /\ args.start = None \/ ev.timestamp >= args.start[1]
    /\ args.end = None \/ ev.timestamp <= args.end[1]

\* C7: a switch record with at least one eligible counter is emitted (printed
\* and buffered) if and only if the tid allow-list is empty or holds its tid,
\* the process name is unset or equals the thread's comm, and the timestamp is
\* within [start, end], a bound of 0 being enforced like any other.
C7_EmittedIffFilters ==
    [][(event'.name = "sched_switch" /\ DOMAIN ret' # {}) =>
          LET emitted == /\ Len(stdout') = Len(stdout) + 1
                         /\ Len(perf') = Len(perf) + 1
              dropped == stdout' = stdout /\ perf' = perf
          IN  IF C7_FiltersPass(event', tids') THEN emitted ELSE dropped]_vars


\* C11: after a switch event on CPU c with next_tid N, c's current_tid is N
\* and stays N until the next switch event on c, whatever events other CPUs
\* see in between; every page_alloc on c meanwhile, N not being -1, adds
\* exactly one to N's allocated_pages.
C11_AllocChargesScheduled ==
    [][/\ \A c \in DOMAIN cpus' :
             IF event'.name = "sched_switch" /\ event'.cpu_id = c
             THEN cpus'[c].current_tid = event'.next_tid
             ELSE c \in DOMAIN cpus /\ cpus'[c] = cpus[c]
       /\ (/\ event'.name = "mm_page_alloc"
           /\ event'.cpu_id \in DOMAIN cpus
           /\ cpus[event'.cpu_id].current_tid # -1) =>
             LET N == cpus[event'.cpu_id].current_tid
             IN  /\ N \in DOMAIN tids
                 /\ N \in DOMAIN tids'
                 /\ tids'[N].allocated_pages = tids[N].allocated_pages + 1]_vars

\* C12: block_dirty_buffer appends exactly one entry (thread, syscall name,
\* filename, fd) to the DirtyPageLog when the thread scheduled on the event's
\* CPU has an open SyscallContext with a file-descriptor binding, and appends
\* nothing when the CPU has no attributable thread, the thread has no open
\* SyscallContext or the context has no fd binding; its lookup of the thread
\* gives what the lookup of page_alloc and page_free gives for the same event.
C12_DirtyAppend ==
    [][event'.name = "block_dirty_buffer" =>
          LET t == ScheduledOn(event'.cpu_id)
              sc == tids[t].current_syscall
          IN  /\ IF t # -1 /\ "fd" \in DOMAIN sc
                 THEN dirty_pages'.pages =
                          Append(dirty_pages.pages,
                                 << t, sc["name"], sc["fd"].filename, sc["fd"].fd >>)
                 ELSE dirty_pages'.pages = dirty_pages.pages
              /\ DirtyLookup(event') = get_current_proc(event')]_vars

C14_ScratchAlloc ==
    [][event'.name = "mm_page_alloc" =>
          /\ DOMAIN tids' = DOMAIN tids
          /\ \A t \in DOMAIN tids :
                LET sc == tids[t].current_syscall
                    after == tids'[t].current_syscall
                IN  IF DOMAIN sc = {} THEN DOMAIN after = {}
                    ELSE /\ DOMAIN after = (DOMAIN sc) \cup {"alloc"}
                         /\ after["alloc"] = IF "alloc" \in DOMAIN sc
                                             THEN sc["alloc"] + 1 ELSE 1
                         /\ \A k \in (DOMAIN sc) \ {"alloc"} : after[k] = sc[k]]_vars

\* C14 is exercised: two page_alloc events on a CPU that runs nothing have
\* brought the scratch count of a thread inside a write call to 2, while
\* another registered thread is in no system call.
C14_ScratchCounted ==
    /\ event.name = "mm_page_alloc"
    /\ event.cpu_id \notin DOMAIN cpus
    /\ \E t \in DOMAIN tids :
          /\ DOMAIN tids[t].current_syscall = {"name", "fd", "alloc"}
          /\ tids[t].current_syscall["alloc"] = 2
          /\ tids[t].allocated_pages = 0
    /\ \E t \in DOMAIN tids : DOMAIN tids[t].current_syscall = {}

\* C18: in every reachable state allocated_pages - freed_pages <= count <=
\* allocated_pages for the global counters, and count equals allocated_pages -
\* freed_pages exactly when no page_free was ever handled while count was 0;
\* Global.allocated_pages and Global.freed_pages never decrease.
C18_CountBounds ==
    /\ [](/\ mm.allocated_pages - mm.freed_pages <= mm.count
          /\ mm.count <= mm.allocated_pages
          /\ (mm.count = mm.allocated_pages - mm.freed_pages) <=> ~freed_at_zero)
    /\ [][/\ mm'.allocated_pages >= mm.allocated_pages
          /\ mm'.freed_pages >= mm.freed_pages]_vars

\* C18 is exercised: after a page_free at count 0, two page_alloc and another
\* page_free, count (1) lies strictly between allocated - freed (0) and
\* allocated (2).
C18_StrictBounds ==
    /\ freed_at_zero
    /\ mm.allocated_pages = 2 /\ mm.freed_pages = 2 /\ mm.count = 1

\* the sum of the values of a dict of numbers
RECURSIVE Total(_)
Total(f) ==
    IF DOMAIN f = {} THEN 0
    ELSE LET k == CHOOSE x \in DOMAIN f : TRUE
         IN  f[k] + Total([j \in (DOMAIN f) \ {k} |-> f[j]])

\* C19: in every reachable state the allocated_pages of all threads sum to at
\* most Global.allocated_pages and their freed_pages to at most
\* Global.freed_pages; an event charges at most one thread, by exactly one, and
\* no thread's allocated_pages or freed_pages ever decreases.
C19_ThreadSums ==
    /\ [](/\ Total([t \in DOMAIN tids |-> tids[t].allocated_pages]) <= mm.allocated_pages
          /\ Total([t \in DOMAIN tids |-> tids[t].freed_pages]) <= mm.freed_pages)
    /\ [][LET da == [t \in DOMAIN tids |->
                        tids'[t].allocated_pages - tids[t].allocated_pages]
              df == [t \in DOMAIN tids |-> tids'[t].freed_pages - tids[t].freed_pages]
          IN  /\ \A t \in DOMAIN tids : da[t] \in {0, 1} /\ df[t] \in {0, 1}
              /\ Total(da) + Total(df) <= 1
              /\ Total(da) = 1 => event'.name = "mm_page_alloc"
              /\ Total(df) = 1 => event'.name = "mm_page_free"
              /\ \A t \in (DOMAIN tids') \ DOMAIN tids :
                    tids'[t].allocated_pages = 0 /\ tids'[t].freed_pages = 0]_vars

\* C19 is exercised: of two registered threads one was charged one of two
\* allocated pages and the one freed page; the other page was allocated on a
\* CPU that runs no thread.
C19_PartlyCharged ==
    /\ Cardinality(DOMAIN tids) = 2
    /\ mm.allocated_pages = 2 /\ mm.freed_pages = 1
    /\ Total([t \in DOMAIN tids |-> tids[t].allocated_pages]) = 1
    /\ Total([t \in DOMAIN tids |-> tids[t].freed_pages]) = 1

\* C17: page_alloc, page_free, block_dirty_buffer and
\* writeback_global_dirty_state leave the CPU Registry as it is (no entry is
\* created, no current_tid changes), leave every thread's stored counter
\* values as they are and register no thread; only a switch event changes a
\* CPU's current_tid.
C17_MmLeavesRegistries ==
    [][/\ event'.name \in {"mm_page_alloc", "mm_page_free", "block_dirty_buffer",
                          "writeback_global_dirty_state"} =>
             /\ cpus' = cpus
             /\ DOMAIN tids' = DOMAIN tids
             /\ \A t \in DOMAIN tids : tids'[t].perf = tids[t].perf
       /\ cpus' # cpus => event'.name = "sched_switch"]_vars

\* C17 is exercised: thread 1 has a stored sample of perf_x and runs on CPU 0;
\* a page_alloc on CPU 1, a block_dirty_buffer and a writeback event later,
\* the registries are what the switch left.
C17_RegistriesKept ==
    /\ event.name = "writeback_global_dirty_state"
    /\ stdout # << >>
    /\ stdout[Len(stdout)].dirty = 1
    /\ mm.allocated_pages = 1
    /\ DOMAIN cpus = {0} /\ cpus[0].current_tid = 1
    /\ DOMAIN tids = {1}
    /\ DOMAIN tids[1].perf = {PERF_X}
    /\ tids[1].perf[PERF_X] = 10
    /\ tids[1].allocated_pages = 0

\* a counter field that the configured type filter lets into a record
C15_Eligible(c) == StartsWith(c, PERF_) /\ (types = None \/ InList(c, types))

\* C15: the record built for a switch event holds, beside ts and tid, exactly
\* the fields returned by switch whose name starts with perf_ and, when a type
\* filter is configured, is named in it; the value of a field is the delta
\* switch returned under --delta, and otherwise the thread's stored cumulative
\* value, which is the sample of this event.  The lines printed show the same
\* fields and values.  A switch that returns no delta produces no record and
\* no line, in either mode.
C15_RecordFields ==
    [][event'.name = "sched_switch" =>
          LET tid == event'.prev_tid
              lines == SubSeq(stdout', Len(stdout) + 1, Len(stdout'))
              recs == SubSeq(perf', Len(perf) + 1, Len(perf'))
              wanted == {c \in DOMAIN ret' : C15_Eligible(c)}
              Value(c) == IF args.delta THEN ret'[c] ELSE tids'[tid].perf[c]
          IN  /\ SubSeq(stdout', 1, Len(stdout)) = stdout
              /\ SubSeq(perf', 1, Len(perf)) = perf
              /\ Len(recs) = IF wanted = {} THEN 0 ELSE 1
              /\ \A i \in 1..Len(recs) :
                    /\ DOMAIN recs[i] = {KEY_TS, KEY_TID} \cup wanted
                    /\ \A c \in wanted : recs[i][c] = Value(c)
              /\ {lines[i].context : i \in 1..Len(lines)} = wanted
              /\ Len(lines) = Cardinality(wanted)
              /\ \A i \in 1..Len(lines) : lines[i].value = Value(lines[i].context)
              /\ \A c \in wanted : ~args.delta => Value(c) = event'.fields[c]
              /\ DOMAIN ret' = {} => stdout' = stdout /\ perf' = perf]_vars

\* C15 is exercised: with --type perf_x and no --delta, a switch that returned
\* deltas for perf_x (15) and perf_y (4) has produced one record and one line,
\* both with perf_x alone, at the cumulative value 25.
C15_FilteredCumulative ==
    /\ types = << PERF_X >>
    /\ ~args.delta
    /\ DOMAIN ret = {PERF_X, PERF_Y}
    /\ ret[PERF_X] = 15 /\ ret[PERF_Y] = 4
    /\ Len(perf) = 1
    /\ DOMAIN perf[1] = {KEY_TS, KEY_TID, PERF_X}
    /\ perf[1][PERF_X] = 25
    /\ Len(stdout) = 1
    /\ stdout[1].context = PERF_X /\ stdout[1].value = 25

\* the metadata md holds the entry C16 describes for a record of thread tid
\* of process pid with name comm
C16_MetadataHolds(md, tid, pid, comm) ==
    /\ pid \in DOMAIN md
    /\ DOMAIN md[pid] = {"pname", "threads"}
    /\ IF tid = pid THEN md[pid].pname = comm
       ELSE /\ IntToStr(tid) \in DOMAIN md[pid].threads
            /\ md[pid].threads[IntToStr(tid)].pname = comm

\* the record of the switch event just handled was appended to the buffer, and
\* the metadata holds the entry of its process (the thread's own tid standing
\* for a pid that is not known)
C16_Appended ==
    LET tid == event'.prev_tid
        pid == IF tids'[tid].pid = -1 THEN tid ELSE tids'[tid].pid
    IN  /\ Len(perf') = Len(perf) + 1
        /\ SubSeq(perf', 1, Len(perf)) = perf
        /\ perf'[Len(perf')][KEY_TID] = tid
        /\ perf'[Len(perf')][KEY_TS] = event'.timestamp
        /\ C16_MetadataHolds(json_metadata', tid, pid, tids'[tid].comm)
        /\ \A q \in (DOMAIN json_metadata) \ {pid} :
              q \in DOMAIN json_metadata' /\ json_metadata'[q] = json_metadata[q]

\* C16, as stated: whatever sinks are configured, every record that is emitted
\* is appended to the output buffer, in emission order, and at that moment the
\* metadata holds a pid-keyed entry {pname, threads} for its process, with the
\* thread under threads[tid] when tid differs from pid, the stored pname being
\* the comm of this, the most recent, record of that pid/tid.
C16_BufferedAlways ==
    [][(event'.name = "sched_switch" /\ (stdout' # stdout \/ perf' # perf))
          => C16_Appended]_vars

\* C16, amended: a record that passes the filters with at least one counter
\* field is appended to the buffer and entered in the metadata, as above, when
\* a JSON or MongoDB sink is configured, printed or not; with neither sink
\* configured, and at every other event, the buffer and the metadata are left
\* as they are.
C16_BufferedForSinks ==
    [][IF /\ event'.name = "sched_switch"
          /\ DOMAIN ret' # {}
          /\ Passes(args, event', tids')
          /\ TruthyStr(args.json) \/ TruthyStr(args.mongo)
       THEN C16_Appended
       ELSE perf' = perf /\ json_metadata' = json_metadata]_vars

\* C16 is exercised: with a MongoDB sink alone and --quiet, two records of
\* thread 1 were buffered, nothing was printed, and the process name kept for
\* pid 1 went from the empty comm of the first record to "a", the comm of the
\* second.
C16_PnameUpdated ==
    /\ args.mongo # None /\ args.json = None /\ args.quiet
    /\ event.name = "sched_switch"
    /\ Len(perf) = 2
    /\ perf[1][KEY_TID] = 1 /\ perf[2][KEY_TID] = 1
    /\ stdout = << >>
    /\ DOMAIN json_metadata = {1}
    /\ json_metadata[1].pname = "a"
    /\ tids[1].comm = "a"

=============================================================================
